---- MODULE Spec2Model ----
(***************************************************************************)
(* Model of src/http.rs: the blocking HTTP client wrapper (Client::get,    *)
(* get_text, json, download_file) and the error classifier error_code.     *)
(*                                                                         *)
(* One behaviour is one logical call of one operation.  A URL string is a  *)
(* sequence of tokens: the scheme prefix ("http://" or "https://"), the    *)
(* host, then the pieces of path and query.  A response body is a sequence *)
(* of blocks of BlockBytes bytes each; the block "<!DOCTYPE html>" is a    *)
(* block that begins with that literal.                                    *)
(***************************************************************************)
EXTENDS Integers, Sequences, FiniteSets, TLC

VARIABLES pc, op, token, pr, url, gtUrl, attempt, rewrites, requests, resp,
          getRet, result, classified, dir, file, buf, pos, setLengths, incs,
          events,
          cell, tpc, target, local, seen, ctorRuns

\* the state of one logical call
callVars == <<pc, op, token, pr, url, gtUrl, attempt, rewrites, requests, resp,
              getRet, result, classified, dir, file, buf, pos, setLengths, incs,
              events>>

\* the state of the client singletons and of the threads that access them
lazyVars == <<cell, tpc, target, local, seen, ctorRuns>>

vars == <<callVars, lazyVars>>

(* ------------------------------ bounds --------------------------------- *)
\* longest response body, in blocks
MaxBody == 3
\* bytes per modelled block of the body
BlockBytes == 16384
\* threads that access the client singletons
NumThreads == 3

(* ------------------------- program constants --------------------------- *)
\* let mut buf = [0; 32 * 1024];
BufSize == 32 * 1024
\* reads fill at most the buffer: this many whole blocks
BufBlocks == BufSize \div BlockBytes
TrustedHost == "api.github.com"
HtmlPrefix == "<!DOCTYPE html>"

(* ------------------------------ helpers -------------------------------- *)
Min(a, b) == IF a < b THEN a ELSE b

RECURSIVE SumSeq(_)
SumSeq(s) == IF s = <<>> THEN 0 ELSE Head(s) + SumSeq(Tail(s))

IsPrefix(s, t) == Len(s) <= Len(t) /\ SubSeq(t, 1, Len(s)) = s

\* Option<T>: None is the empty sequence, Some(x) is <<x>>
None == <<>>
Some(x) == <<x>>

(* -------------------------------- URLs --------------------------------- *)
NoUrl == [scheme |-> "", host |-> "", path |-> <<>>]
UrlErr == [scheme |-> "err", host |-> "", path |-> <<>>]

SchemePrefix(sch) == IF sch = "http" THEN "http://" ELSE "https://"

\* Url::to_string: the serialization the rewriting works on
to_string(u) == <<SchemePrefix(u.scheme), u.host>> \o u.path

\* IntoUrl::into_url for a string: parse, UrlErr when malformed
into_url(s) ==
    IF Len(s) >= 2 /\ s[1] \in {"http://", "https://"}
    THEN [scheme |-> IF s[1] = "http://" THEN "http" ELSE "https",
          host |-> s[2],
          path |-> SubSeq(s, 3, Len(s))]
    ELSE UrlErr

\* str::replace("http://", "https://"): every occurrence is replaced
replace(s) == [i \in DOMAIN s |-> IF s[i] = "http://" THEN "https://" ELSE s[i]]

\* a rewriting that leaves the URL as it is
rewrite_unchanged(u) == u

\* url.to_string().replace("http://", "https://") then into_url().unwrap()
rewrite(u) == into_url(replace(to_string(u)))

Hosts == {TrustedHost, "example.com"}
Paths == {<<>>, <<"/404">>, <<"?u=", "http://", "m">>}
UrlStrings == {<<p, h>> \o q : p \in {"http://", "https://"}, h \in Hosts, q \in Paths}
Malformed == <<"::">>
Inputs == UrlStrings \cup {Malformed}

(* ------------------------------ responses ------------------------------ *)
Statuses == {200, 404, 500}
\* a status test that lets client errors pass
IsServerError(st) == st >= 500 /\ st <= 599

\* StatusCode::is_client_error() || is_server_error()
IsFailure(st) == st >= 400 /\ st <= 599

StatusText(st) == CASE st = 200 -> "200" [] st = 404 -> "404" [] st = 500 -> "500"
                    [] OTHER -> "?"

Blocks == {HtmlPrefix, "x"}
Bodies == UNION {[1..n -> Blocks] : n \in 0..MaxBody}

NoResp == [status |-> 0, body |-> <<>>, clen |-> None]

\* what a server can answer; clen is Response::content_length()
Responses ==
    {[status |-> st, body |-> <<>>, clen |-> None] : st \in {404, 500}}
    \cup {[status |-> 200, body |-> b, clen |-> None] : b \in Bodies}
    \cup {[status |-> 200, body |-> b, clen |-> Some(Len(b) * BlockBytes)] : b \in Bodies}

(* ------------------------------- errors -------------------------------- *)
\* an eyre::Report: origin type, typed status (reqwest::Error::status()),
\* and the Display rendering as tokens
NoErr == [type |-> "none", status |-> None, msg |-> <<>>]

\* a status error that lost its typed status
StatusErrorUntyped(st, u) ==
    [type |-> "reqwest", status |-> None,
     msg |-> <<"HTTP status error (", StatusText(st), ") for url (">> \o to_string(u)]

\* reqwest::Error from error_for_status_ref
StatusError(st, u) ==
    [type |-> "reqwest", status |-> Some(st),
     msg |-> <<"HTTP status error (", StatusText(st), ") for url (">> \o to_string(u)]
\* reqwest::Error from send()
TransportError(u) ==
    [type |-> "reqwest", status |-> None,
     msg |-> <<"error sending request for url (">> \o to_string(u)]
\* reqwest::Error from text() / json()
DecodeError == [type |-> "reqwest", status |-> None, msg |-> <<"error decoding response body">>]
\* bail!("Got HTML instead of text from {}", url)
HtmlError(u) ==
    [type |-> "msg", status |-> None, msg |-> <<"Got HTML instead of text from ">> \o to_string(u)]
IoError(what) == [type |-> "io", status |-> None, msg |-> <<what>>]
UrlError == [type |-> "url", status |-> None, msg |-> <<"relative URL without a base">>]

\* a classifier that looks at the typed status first
error_code_typed_first(e) ==
    IF e.type = "reqwest" /\ e.status # None THEN e.status
    ELSE IF \E i \in DOMAIN e.msg : e.msg[i] \in {"404", "/404"} THEN Some(404)
    ELSE None

\* str::contains("404") on a rendering
Contains404(msg) == \E i \in DOMAIN msg : msg[i] \in {"404", "/404"}

error_code(e) ==
    IF Contains404(e.msg) THEN Some(404)
    ELSE IF e.type = "reqwest" THEN e.status
    ELSE None

Ok(v) == [kind |-> "ok", value |-> v, err |-> NoErr]
Err(e) == [kind |-> "err", value |-> <<>>, err |-> e]
NoResult == [kind |-> "none", value |-> <<>>, err |-> NoErr]

(* ------------------------- the client singletons ---------------------- *)
\* pub static HTTP_VERSION_CHECK, HTTP, HTTP_FETCH: Lazy<Client>
Singletons == {"HTTP_VERSION_CHECK", "HTTP", "HTTP_FETCH"}
Threads == 1..NumThreads

\* the timeout each singleton's initializer passes to Client::new
Timeout(s) ==
    CASE s = "HTTP_VERSION_CHECK" -> "3s"
      [] s = "HTTP" -> "30s"
      [] OTHER -> "MISE_FETCH_REMOTE_VERSIONS_TIMEOUT"

\* Client::new(timeout): the timeout is applied to the whole request and to
\* connecting, on top of the builder of _new (user agent, gzip)
Client_new(timeout) ==
    [timeout |-> timeout, connect_timeout |-> timeout,
     user_agent |-> "mise/VERSION", gzip |-> TRUE]

NoClient == [timeout |-> "", connect_timeout |-> "", user_agent |-> "", gzip |-> FALSE]

\* a guard that lets a thread start the initializer while another runs it
CanStartInitUnguarded(s) == cell[s].state # "complete"

\* sync::Lazy's guard: only the thread that finds the cell incomplete, and
\* marks it running in the same atomic step, runs the initializer
CanStartInit(s) == cell[s].state = "incomplete"

LazyInit ==
    /\ cell = [s \in Singletons |-> [state |-> "incomplete", value |-> NoClient]]
    /\ tpc = [t \in Threads |-> "idle"]
    /\ target = [t \in Threads |-> "none"]
    /\ local = [t \in Threads |-> NoClient]
    /\ seen = [t \in Threads |-> NoClient]
    /\ ctorRuns = [s \in Singletons |-> 0]

\* a thread dereferences singleton s: the fast path returns the client of a
\* complete cell, otherwise the thread enters the guarded slow path
Deref(t, s) ==
    /\ tpc[t] = "idle"
    /\ target' = [target EXCEPT ![t] = s]
    /\ IF cell[s].state = "complete"
       THEN /\ seen' = [seen EXCEPT ![t] = cell[s].value]
            /\ tpc' = [tpc EXCEPT ![t] = "done"]
       ELSE /\ tpc' = [tpc EXCEPT ![t] = "slow"]
            /\ UNCHANGED seen
    /\ UNCHANGED <<cell, local, ctorRuns, callVars>>

\* the slow path: start the initializer, or return the client another thread
\* published meanwhile, or panic on a poisoned cell; a thread that finds the
\* initializer running waits
Guard(t) ==
    /\ tpc[t] = "slow"
    /\ IF CanStartInit(target[t])
       THEN /\ cell' = [cell EXCEPT ![target[t]].state = "running"]
            /\ tpc' = [tpc EXCEPT ![t] = "ctor"]
            /\ UNCHANGED seen
       ELSE IF cell[target[t]].state = "complete"
       THEN /\ seen' = [seen EXCEPT ![t] = cell[target[t]].value]
            /\ tpc' = [tpc EXCEPT ![t] = "done"]
            /\ UNCHANGED cell
       ELSE /\ cell[target[t]].state = "poisoned"
            /\ tpc' = [tpc EXCEPT ![t] = "panicked"]
            /\ UNCHANGED <<cell, seen>>
    /\ UNCHANGED <<target, local, ctorRuns, callVars>>

\* the initializer: Client::new(timeout).unwrap(); a failed build panics and
\* leaves the cell poisoned
Construct(t, ok) ==
    /\ tpc[t] = "ctor"
    /\ ctorRuns' = [ctorRuns EXCEPT ![target[t]] = @ + 1]
    /\ IF ok
       THEN /\ local' = [local EXCEPT ![t] = Client_new(Timeout(target[t]))]
            /\ tpc' = [tpc EXCEPT ![t] = "publish"]
            /\ UNCHANGED cell
       ELSE /\ cell' = [cell EXCEPT ![target[t]].state = "poisoned"]
            /\ tpc' = [tpc EXCEPT ![t] = "panicked"]
            /\ UNCHANGED local
    /\ UNCHANGED <<target, seen, callVars>>

\* the initializing thread stores the client and marks the cell complete
Publish(t) ==
    /\ tpc[t] = "publish"
    /\ cell' = [cell EXCEPT ![target[t]] = [state |-> "complete", value |-> local[t]]]
    /\ seen' = [seen EXCEPT ![t] = local[t]]
    /\ tpc' = [tpc EXCEPT ![t] = "done"]
    /\ UNCHANGED <<target, local, ctorRuns, callVars>>

NextLazy ==
    \/ \E t \in Threads, s \in Singletons : Deref(t, s)
    \/ \E t \in Threads : Guard(t)
    \/ \E t \in Threads, ok \in BOOLEAN : Construct(t, ok)
    \/ \E t \in Threads : Publish(t)

(* ------------------------------- Init ---------------------------------- *)
\* the destination before the call: <<parent directory exists, file content>>;
\* a file exists only inside an existing directory
FileSystems == {<<FALSE, None>>, <<TRUE, None>>, <<TRUE, Some(<<"old">>)>>}

Init ==
    /\ pc = "idle"
    /\ op = "none"
    /\ token \in {None, Some("secret")}
    /\ pr \in BOOLEAN
    /\ url = NoUrl
    /\ gtUrl = NoUrl
    /\ attempt = 0
    /\ rewrites = 0
    /\ requests = <<>>
    /\ resp = NoResp
    /\ getRet = NoResult
    /\ result = NoResult
    /\ classified = None
    /\ \E fs \in FileSystems : dir = fs[1] /\ file = fs[2]
    /\ buf = <<>>
    /\ pos = 0
    /\ setLengths = <<>>
    /\ incs = <<>>
    /\ events = <<>>
    /\ LazyInit

(* --------------------------- operation entry --------------------------- *)
\* the panic of into_url().unwrap() on a malformed URL
Panic == [kind |-> "panic", value |-> <<>>, err |-> NoErr]

\* Client::get called by the user: let url = url.into_url().unwrap();
CallGet(s) ==
    /\ pc = "idle"
    /\ op' = "get"
    /\ IF into_url(s) = UrlErr
       THEN /\ result' = Panic
            /\ pc' = "done"
            /\ UNCHANGED url
       ELSE /\ url' = into_url(s)
            /\ pc' = "get"
            /\ UNCHANGED result
    /\ UNCHANGED <<lazyVars, token, pr, gtUrl, attempt, rewrites, requests, resp, getRet,
                   classified, dir, file, buf, pos, setLengths, incs, events>>

\* Client::get_text entry: into_url().unwrap(), then self.get(url.clone())
CallGetText(s) ==
    /\ pc = "idle"
    /\ op' = "get_text"
    /\ IF into_url(s) = UrlErr
       THEN /\ result' = Panic
            /\ pc' = "done"
            /\ UNCHANGED <<url, gtUrl>>
       ELSE /\ gtUrl' = into_url(s)
            /\ url' = into_url(s)
            /\ pc' = "get"
            /\ UNCHANGED result
    /\ UNCHANGED <<lazyVars, token, pr, attempt, rewrites, requests, resp, getRet,
                   classified, dir, file, buf, pos, setLengths, incs, events>>

\* Client::json entry: into_url().unwrap(), then self.get(url)
CallJson(s) ==
    /\ pc = "idle"
    /\ op' = "json"
    /\ IF into_url(s) = UrlErr
       THEN /\ result' = Panic
            /\ pc' = "done"
            /\ UNCHANGED url
       ELSE /\ url' = into_url(s)
            /\ pc' = "get"
            /\ UNCHANGED result
    /\ UNCHANGED <<lazyVars, token, pr, gtUrl, attempt, rewrites, requests, resp, getRet,
                   classified, dir, file, buf, pos, setLengths, incs, events>>

\* Client::download_file entry: let url = url.into_url()?; then self.get(url)
CallDownloadFile(s) ==
    /\ pc = "idle"
    /\ op' = "download_file"
    /\ IF into_url(s) = UrlErr
       THEN /\ result' = Err(UrlError)
            /\ pc' = "done"
            /\ UNCHANGED url
       ELSE /\ url' = into_url(s)
            /\ pc' = "get"
            /\ UNCHANGED result
    /\ UNCHANGED <<lazyVars, token, pr, gtUrl, attempt, rewrites, requests, resp, getRet,
                   classified, dir, file, buf, pos, setLengths, incs, events>>

(* ----------------------------- Client::get ----------------------------- *)
\* a get that sends the credential to every host
AuthHeaderAnyHost(u) == IF token # None THEN Some(<<"token ", token[1]>>) ELSE None

\* the authorization header of a request to u
AuthHeader(u) ==
    IF u.host = TrustedHost
    THEN IF token # None THEN Some(<<"token ", token[1]>>) ELSE None
    ELSE None

\* a get that retries on every failure status, whatever the scheme
ShouldRetryAnyScheme(u, st) == IsFailure(st)

\* the retry condition of get
ShouldRetry(u, st) == u.scheme = "http" /\ IsFailure(st)

\* one entry of the request log: what was sent and what came back
Sent(u, outcome, st) ==
    [url |-> u, auth |-> AuthHeader(u), outcome |-> outcome, status |-> st]

\* a get that sends the request once more when send() fails
AfterSendErrorRetry == IF attempt = 0 THEN "get" ELSE "ret"

\* where get goes when send() fails: req.send()? returns
AfterSendError == "ret"

\* send() fails at transport level: req.send()? returns the error
GetTransportError ==
    /\ pc = "get"
    /\ requests' = Append(requests, Sent(url, "transport", 0))
    /\ attempt' = attempt + 1
    /\ getRet' = Err(TransportError(url))
    /\ pc' = AfterSendError
    /\ UNCHANGED <<lazyVars, op, token, pr, url, gtUrl, rewrites, resp, result, classified,
                   dir, file, buf, pos, setLengths, incs, events>>

\* one body of get with a response r from the server
GetResponse(r) ==
    /\ pc = "get"
    /\ requests' = Append(requests, Sent(url, "response", r.status))
    /\ attempt' = attempt + 1
    /\ IF ShouldRetry(url, r.status)
       THEN \* return self.get(url) with the rewritten URL
            /\ url' = rewrite(url)
            /\ rewrites' = rewrites + 1
            /\ pc' = "get"
            /\ UNCHANGED <<resp, getRet>>
       ELSE IF IsFailure(r.status)
       THEN \* resp.error_for_status_ref()?
            /\ getRet' = Err(StatusError(r.status, url))
            /\ pc' = "ret"
            /\ UNCHANGED <<url, rewrites, resp>>
       ELSE \* Ok(resp)
            /\ getRet' = Ok(<<r.status>>)
            /\ resp' = r
            /\ pc' = "ret"
            /\ UNCHANGED <<url, rewrites>>
    /\ UNCHANGED <<lazyVars, op, token, pr, gtUrl, result, classified,
                   dir, file, buf, pos, setLengths, incs, events>>

get == GetTransportError \/ \E r \in Responses : GetResponse(r)

\* get called by the user returns its result
GetReturn ==
    /\ pc = "ret"
    /\ op = "get"
    /\ result' = getRet
    /\ pc' = "done"
    /\ UNCHANGED <<lazyVars, op, token, pr, url, gtUrl, attempt, rewrites, requests, resp,
                   getRet, classified, dir, file, buf, pos, setLengths, incs,
                   events>>

(* --------------------------- Client::get_text -------------------------- *)
\* a test for a body that is the literal and nothing else
is_html_literal(text) == text = <<HtmlPrefix>>

\* str::starts_with("<!DOCTYPE html>")
starts_with_html(text) == Len(text) >= 1 /\ text[1] = HtmlPrefix

\* a get_text that re-runs whatever the scheme
GetTextRetryAnyScheme(u) == TRUE

\* the re-run condition of get_text: if url.scheme() == "http"
GetTextRetry(u) == u.scheme = "http"

\* let resp = self.get(url.clone())?; let text = resp.text()?; ...
\* textOk = FALSE is a failure of resp.text()
get_text(textOk) ==
    /\ pc = "ret"
    /\ op = "get_text"
    /\ IF getRet.kind = "err"
       THEN /\ result' = getRet
            /\ pc' = "done"
            /\ UNCHANGED <<url, gtUrl, attempt, rewrites, getRet>>
       ELSE IF ~textOk
       THEN /\ result' = Err(DecodeError)
            /\ pc' = "done"
            /\ UNCHANGED <<url, gtUrl, attempt, rewrites, getRet>>
       ELSE IF starts_with_html(resp.body)
       THEN IF GetTextRetry(gtUrl)
            THEN \* return self.get_text(url) with the rewritten URL
                 /\ gtUrl' = rewrite(gtUrl)
                 /\ url' = rewrite(gtUrl)
                 /\ rewrites' = rewrites + 1
                 /\ attempt' = 0
                 /\ getRet' = NoResult
                 /\ pc' = "get"
                 /\ UNCHANGED result
            ELSE /\ result' = Err(HtmlError(gtUrl))
                 /\ pc' = "done"
                 /\ UNCHANGED <<url, gtUrl, attempt, rewrites, getRet>>
       ELSE /\ result' = Ok(resp.body)
            /\ pc' = "done"
            /\ UNCHANGED <<url, gtUrl, attempt, rewrites, getRet>>
    /\ UNCHANGED <<lazyVars, op, token, pr, requests, resp, classified,
                   dir, file, buf, pos, setLengths, incs, events>>

(* ----------------------------- Client::json ---------------------------- *)
\* a json that sends the request again when the body does not deserialize
JsonNextRetry(jsonOk) == IF getRet.kind = "ok" /\ ~jsonOk THEN "get" ELSE "done"

\* where json goes after resp.json(): it returns, whatever the outcome
JsonNext(jsonOk) == "done"

\* let resp = self.get(url)?; let json = resp.json()?; Ok(json)
json(jsonOk) ==
    /\ pc = "ret"
    /\ op = "json"
    /\ result' = IF getRet.kind = "err" THEN getRet
                 ELSE IF jsonOk THEN Ok(resp.body) ELSE Err(DecodeError)
    /\ pc' = JsonNext(jsonOk)
    /\ UNCHANGED <<lazyVars, op, token, pr, url, gtUrl, attempt, rewrites, requests, resp,
                   getRet, classified, dir, file, buf, pos, setLengths, incs,
                   events>>

(* ------------------------- Client::download_file ----------------------- *)
\* a download_file that has created the destination file before it looks at
\* the result of get
download_file_created_first ==
    /\ pc = "ret"
    /\ op = "download_file"
    /\ file' = Some(<<>>)
    /\ IF getRet.kind = "err"
       THEN /\ result' = getRet
            /\ pc' = "done"
            /\ UNCHANGED <<setLengths, events>>
       ELSE /\ IF resp.clen # None /\ pr
               THEN /\ setLengths' = Append(setLengths, resp.clen[1])
                    /\ events' = Append(events, "set_length")
               ELSE UNCHANGED <<setLengths, events>>
            /\ pc' = "mkdir"
            /\ UNCHANGED result
    /\ UNCHANGED <<lazyVars, op, token, pr, url, gtUrl, attempt, rewrites, requests, resp,
                   getRet, classified, dir, buf, pos, incs>>

\* let mut resp = self.get(url)?; then the total length goes to the sink
download_file ==
    /\ pc = "ret"
    /\ op = "download_file"
    /\ IF getRet.kind = "err"
       THEN /\ result' = getRet
            /\ pc' = "done"
            /\ UNCHANGED <<setLengths, events>>
       ELSE /\ IF resp.clen # None /\ pr
               THEN /\ setLengths' = Append(setLengths, resp.clen[1])
                    /\ events' = Append(events, "set_length")
               ELSE UNCHANGED <<setLengths, events>>
            /\ pc' = "mkdir"
            /\ UNCHANGED result
    /\ UNCHANGED <<lazyVars, op, token, pr, url, gtUrl, attempt, rewrites, requests, resp,
                   getRet, classified, dir, file, buf, pos, incs>>

\* a download_file that goes on to create the file whatever create_dir_all
\* returned
AfterCreateDirIgnored(ok) == "create"

\* what download_file does after create_dir_all: "?" returns the failure
AfterCreateDir(ok) == IF ok THEN "create" ELSE "done"

\* file::create_dir_all(path.parent().unwrap())?
create_dir_all(ok) ==
    /\ pc = "mkdir"
    /\ events' = Append(events, IF ok THEN "mkdir" ELSE "mkdir_failed")
    /\ IF ok
       THEN /\ dir' = TRUE
            /\ pc' = AfterCreateDir(ok)
            /\ UNCHANGED result
       ELSE /\ result' = Err(IoError("create_dir_all failed"))
            /\ pc' = AfterCreateDir(ok)
            /\ UNCHANGED dir
    /\ UNCHANGED <<lazyVars, op, token, pr, url, gtUrl, attempt, rewrites, requests, resp,
                   getRet, classified, file, buf, pos, setLengths, incs>>

\* let mut file = File::create(path)?;  creates or truncates
File_create(ok) ==
    /\ pc = "create"
    /\ events' = Append(events, IF ok /\ dir THEN "create" ELSE "create_failed")
    /\ IF ok /\ dir
       THEN /\ file' = Some(<<>>)
            /\ pc' = "read"
            /\ UNCHANGED result
       ELSE /\ result' = Err(IoError("File::create failed"))
            /\ pc' = "done"
            /\ UNCHANGED file
    /\ UNCHANGED <<lazyVars, op, token, pr, url, gtUrl, attempt, rewrites, requests, resp,
                   getRet, classified, dir, buf, pos, setLengths, incs>>

\* the blocks of the body not yet read
Remaining == Len(resp.body) - pos

\* let n = resp.read(&mut buf)?; if n == 0 { break; }   ... Ok(())
\* n = -1 is a failed read
read(n) ==
    /\ pc = "read"
    /\ events' = Append(events, IF n = -1 THEN "read_failed"
                                 ELSE IF n = 0 THEN "eof" ELSE "read")
    /\ IF n = -1
       THEN /\ result' = Err(IoError("read failed"))
            /\ pc' = "done"
            /\ UNCHANGED <<buf, pos>>
       ELSE IF n = 0
       THEN /\ result' = Ok(<<>>)
            /\ pc' = "done"
            /\ UNCHANGED <<buf, pos>>
       ELSE /\ buf' = SubSeq(resp.body, pos + 1, pos + n)
            /\ pos' = pos + n
            /\ pc' = "write"
            /\ UNCHANGED result
    /\ UNCHANGED <<lazyVars, op, token, pr, url, gtUrl, attempt, rewrites, requests, resp,
                   getRet, classified, dir, file, setLengths, incs>>

\* the sizes a read can return: 0 only at the end of the body, otherwise
\* between one block and the buffer's capacity
ReadSizes == {-1} \cup (IF Remaining = 0 THEN {0} ELSE 1..Min(BufBlocks, Remaining))

\* a write_all that removes what the file held when it fails
WrittenOrCleared(k) == IF k < Len(buf) THEN <<>> ELSE file[1] \o SubSeq(buf, 1, k)

\* the file after write_all put the first k blocks of the chunk into it
Written(k) == file[1] \o SubSeq(buf, 1, k)

\* file.write_all(&buf[..n])?;   k < Len(buf) blocks reach the file when it fails
write_all(k) ==
    /\ pc = "write"
    /\ events' = Append(events, IF k = Len(buf) THEN "write" ELSE "write_failed")
    /\ file' = Some(Written(k))
    /\ IF k = Len(buf)
       THEN /\ pc' = "inc"
            /\ UNCHANGED result
       ELSE /\ result' = Err(IoError("write_all failed"))
            /\ pc' = "done"
    /\ UNCHANGED <<lazyVars, op, token, pr, url, gtUrl, attempt, rewrites, requests, resp,
                   getRet, classified, dir, buf, pos, setLengths, incs>>

\* a report of the buffer's size instead of the chunk's
IncAmountBuffer == BufSize

\* a report of the position reached instead of the chunk's size
IncAmountTotal == pos * BlockBytes

\* n as u64: the byte count of the chunk just written
IncAmount == Len(buf) * BlockBytes

\* if let Some(pr) = pr { pr.inc(n as u64); }
inc ==
    /\ pc = "inc"
    /\ incs' = IF pr THEN Append(incs, IncAmount) ELSE incs
    /\ events' = IF pr THEN Append(events, "inc") ELSE events
    /\ pc' = "read"
    /\ UNCHANGED <<lazyVars, op, token, pr, url, gtUrl, attempt, rewrites, requests, resp,
                   getRet, result, classified, dir, file, buf, pos, setLengths>>

(* ------------------------------ error_code ----------------------------- *)
\* the caller classifies the error the operation returned
Classify ==
    /\ pc = "done"
    /\ result.kind = "err"
    /\ classified' = error_code(result.err)
    /\ pc' = "classified"
    /\ UNCHANGED <<lazyVars, op, token, pr, url, gtUrl, attempt, rewrites, requests, resp,
                   getRet, result, dir, file, buf, pos, setLengths, incs, events>>

(* ---------------------------- specification ---------------------------- *)
Next ==
    \/ \E s \in Inputs : CallGet(s)
    \/ \E s \in Inputs : CallGetText(s)
    \/ \E s \in Inputs : CallJson(s)
    \/ \E s \in Inputs : CallDownloadFile(s)
    \/ get
    \/ GetReturn
    \/ \E textOk \in BOOLEAN : get_text(textOk)
    \/ \E jsonOk \in BOOLEAN : json(jsonOk)
    \/ download_file
    \/ \E ok \in BOOLEAN : create_dir_all(ok)
    \/ \E ok \in BOOLEAN : File_create(ok)
    \/ \E n \in ReadSizes : read(n)
    \/ \E k \in 0..Len(buf) : write_all(k)
    \/ inc
    \/ Classify

Spec == Init /\ [][Next]_vars

\* the steps of get, get_text and json
NextRequest ==
    \/ \E s \in Inputs : CallGet(s)
    \/ \E s \in Inputs : CallGetText(s)
    \/ \E s \in Inputs : CallJson(s)
    \/ get
    \/ GetReturn
    \/ \E textOk \in BOOLEAN : get_text(textOk)
    \/ \E jsonOk \in BOOLEAN : json(jsonOk)

\* a call of get, get_text or json in which every request returns and the
\* thread keeps running: the calls are synchronous, so a step that can be
\* taken is taken
SpecRequest == Init /\ [][NextRequest]_vars /\ WF_vars(NextRequest)

\* threads accessing the singletons, before any call is made
SpecLazy == Init /\ [][NextLazy]_vars

(* ------------------------- views of the history ----------------------- *)
\* the requests of the current call of get, oldest first
GetLog == SubSeq(requests, Len(requests) - attempt + 1, Len(requests))

\* how often event e happened
Count(e) == Cardinality({i \in DOMAIN events : events[i] = e})

Finished == pc \in {"done", "classified"}

(* ======================= Client::get: the retry ======================== *)
\* the current call of get began with an http request answered by a failure
\* status
FirstHttpFailed ==
    /\ attempt >= 1
    /\ GetLog[1].url.scheme = "http"
    /\ GetLog[1].outcome = "response"
    /\ IsFailure(GetLog[1].status)

\* what get must return when request e was its last one
OutcomeOf(e) ==
    IF e.outcome = "transport" THEN getRet.kind = "err" /\ getRet.err.type = "reqwest"
                                    /\ getRet.err.status = None
    ELSE IF IsFailure(e.status) THEN getRet.kind = "err" /\ getRet.err.type = "reqwest"
                                    /\ getRet.err.status = Some(e.status)
    ELSE getRet = Ok(<<e.status>>) /\ resp.status = e.status

\* C1: a call of get whose first request went to an http URL and came back
\* with a failure status sends exactly one further request, to the same host
\* over https, and returns the outcome of that second request (success,
\* status error or transport error); it never sends a third request.
C1_HttpFailureRetriesOnce ==
    FirstHttpFailed =>
        /\ attempt <= 2
        /\ pc = "get" => attempt = 1 /\ url.scheme = "https"
                         /\ url.host = GetLog[1].url.host
        /\ pc = "ret" => /\ attempt = 2
                         /\ GetLog[2].url.scheme = "https"
                         /\ GetLog[2].url.host = GetLog[1].url.host
                         /\ OutcomeOf(GetLog[2])
        /\ (op = "get" /\ Finished) => attempt = 2 /\ result = getRet

\* get returned after an http failure followed by an https failure
C1_Witness ==
    /\ op = "get" /\ pc = "done" /\ FirstHttpFailed
    /\ attempt = 2
    /\ GetLog[2].outcome = "response" /\ GetLog[2].status = 500
    /\ result.kind = "err"

\* C2: a call of get on an https URL answered by a failure status sends
\* exactly one request and fails with a status error carrying that status;
\* the URL is not rewritten.
C2_HttpsFailureNoRetry ==
    (/\ attempt >= 1
     /\ GetLog[1].url.scheme = "https"
     /\ GetLog[1].outcome = "response"
     /\ IsFailure(GetLog[1].status)) =>
        /\ attempt = 1
        /\ pc # "get"
        /\ url = GetLog[1].url
        /\ getRet.kind = "err"
        /\ getRet.err.type = "reqwest"
        /\ getRet.err.status = Some(GetLog[1].status)
        /\ op = "get" => Len(requests) = 1 /\ rewrites = 0
        /\ (op = "get" /\ Finished) => result = getRet

\* get on an https URL failed with 404 after one request
C2_Witness ==
    /\ op = "get" /\ pc = "done"
    /\ Len(requests) = 1
    /\ requests[1].url.scheme = "https"
    /\ requests[1].status = 404
    /\ result.kind = "err"

\* with a credential configured, a retried call sent no header to example.com
C3_WitnessOtherHost ==
    /\ token # None
    /\ Len(requests) = 2
    /\ requests[2].url.host = "example.com"
    /\ requests[1].auth = None /\ requests[2].auth = None

\* C3: every request sent, retries included, carries the header
\* authorization: token <value> exactly when its host is api.github.com and
\* a credential is configured.
C3_TokenOnlyToTrustedHost ==
    \A i \in DOMAIN requests :
        /\ requests[i].auth # None
              <=> (requests[i].url.host = "api.github.com" /\ token # None)
        /\ requests[i].auth # None => requests[i].auth = Some(<<"token ", token[1]>>)

\* with a credential configured, a retried call sent the header to
\* api.github.com with both requests
C3_Witness ==
    /\ token # None
    /\ Len(requests) = 2
    /\ requests[2].url.host = "api.github.com"
    /\ requests[1].auth # None /\ requests[2].auth # None

(* ================== the bound on requests per logical call ============== *)
\* C4: in every logical call of get, get_text, json or download_file the
\* scheme is rewritten at most once and at most 2 requests are sent.
C4_AtMostTwoRequests ==
    /\ rewrites <= 1
    /\ Len(requests) <= 2

(* ============================ get_text ================================= *)
\* get_text holds a decoded body that begins with <!DOCTYPE html>
HtmlReceived ==
    /\ pc = "ret"
    /\ op = "get_text"
    /\ getRet.kind = "ok"
    /\ starts_with_html(resp.body)

\* the step in which get_text looks at an HTML body it could decode
C5_HtmlStep ==
    (HtmlReceived /\ result' # Err(DecodeError)) =>
        /\ requests' = requests
        /\ IF gtUrl.scheme = "http"
           THEN /\ pc' = "get"
                /\ gtUrl'.scheme = "https"
                /\ gtUrl'.host = gtUrl.host
                /\ url' = gtUrl'
                /\ result' = NoResult
           ELSE /\ pc' = "done"
                /\ gtUrl' = gtUrl
                /\ result'.kind = "err"
                /\ result'.err.type = "msg"
                /\ result'.err.status = None
                /\ result'.err.msg = <<"Got HTML instead of text from ">>
                                      \o to_string(requests[Len(requests)].url)

\* get_text is re-run only from an http URL to an https one, hence once
C5_RerunStep ==
    (gtUrl # NoUrl /\ gtUrl' # gtUrl) => gtUrl.scheme = "http" /\ gtUrl'.scheme = "https"

\* a call that has returned sends nothing more
C5_FinishedStep == Finished => requests' = requests /\ Finished'

\* C5: when get_text decodes a body that begins with <!DOCTYPE html> and its
\* URL is http, it is re-run exactly once, against the https URL; when its
\* URL is https (from the start or by that re-run) it fails with the
\* content-mismatch error naming the URL of the request that returned the
\* HTML, and no further request is sent.
C5_GetTextHtml == [][C5_HtmlStep /\ C5_RerunStep /\ C5_FinishedStep]_vars

\* get_text failed with the content-mismatch error after its re-run
C5_Witness ==
    /\ op = "get_text" /\ pc = "done"
    /\ result.kind = "err" /\ result.err.type = "msg"
    /\ requests[1].url.scheme = "http"
    /\ rewrites = 1
    /\ Len(requests) = 2

(* ============================ download_file ============================ *)
\* download_file returned Ok(()) with a progress sink and a declared length
DownloadedWithLength ==
    /\ op = "download_file"
    /\ Finished
    /\ result.kind = "ok"
    /\ pr
    /\ resp.clen # None

\* C6: after a successful download_file with a progress sink and a response
\* that declares a content length L: set_length was called exactly once,
\* with L; the increments reported sum to the number of bytes of the body;
\* and the file holds exactly the body, nothing of its previous content.
C6_DownloadComplete ==
    DownloadedWithLength =>
        /\ setLengths = <<resp.clen[1]>>
        /\ Count("set_length") = 1
        /\ SumSeq(incs) = Len(resp.body) * BlockBytes
        /\ Len(incs) = Count("write")
        /\ file = Some(resp.body)

\* a body longer than the buffer was downloaded, in more than one read
C6_Witness ==
    /\ DownloadedWithLength
    /\ Len(resp.body) * BlockBytes > BufSize
    /\ Len(incs) >= 2
    /\ file = Some(resp.body)

(* ============================== error_code ============================= *)
\* C7: error_code returns 404 whenever the rendering of the error contains
\* "404", whatever typed status the error carries; otherwise the typed status
\* of a transport error that carries one; otherwise nothing.
C7_ErrorCode ==
    pc = "classified" =>
        LET e == result.err
            has404 == \E i \in DOMAIN e.msg : e.msg[i] \in {"404", "/404"}
        IN /\ has404 => classified = <<404>>
           /\ (~has404 /\ e.type = "reqwest" /\ e.status # <<>>) => classified = e.status
           /\ (~has404 /\ (e.type # "reqwest" \/ e.status = <<>>)) => classified = <<>>

\* an error with typed status 500 whose URL mentions 404 was classified
C7_Witness ==
    /\ pc = "classified"
    /\ result.err.status = <<500>>
    /\ classified = <<404>>

\* an error with typed status 500 and no 404 in its rendering was classified
C7_WitnessTyped ==
    /\ pc = "classified"
    /\ result.err.status = <<500>>
    /\ classified = <<500>>

\* C8: whenever the error carries a typed HTTP status, error_code returns
\* that status, also when the rendering mentions 404.
C8_TypedStatusPreferred ==
    (pc = "classified" /\ result.err.type = "reqwest" /\ result.err.status # <<>>)
        => classified = result.err.status

(* ================= download_file: directory, then file ================= *)
\* C9: the parent directory is created before the file is created or
\* written; when creating the directory fails the call fails at once: the
\* file is not created, nothing is read from the response and no increment
\* is reported.
C9_DirectoryFirst ==
    /\ \A i \in DOMAIN events :
          events[i] \in {"create", "create_failed", "read", "read_failed", "eof",
                         "write", "write_failed", "inc"}
             => \E j \in 1..(i - 1) : events[j] = "mkdir"
    /\ Count("create") >= 1 => dir
    /\ Count("mkdir_failed") >= 1 =>
          /\ Finished
          /\ result.kind = "err"
          /\ result.err = IoError("create_dir_all failed")
          /\ events[Len(events)] = "mkdir_failed"
          /\ Count("create") = 0
          /\ Count("read") = 0
          /\ pos = 0
          /\ incs = <<>>

\* create_dir_all failed after the total length had been declared
C9_Witness ==
    /\ op = "download_file" /\ pc = "done"
    /\ Count("mkdir_failed") = 1
    /\ Count("set_length") = 1
    /\ result.kind = "err"

\* the directory was created first, then the file was created and written
C9_WitnessCreated ==
    /\ op = "download_file" /\ pc = "done"
    /\ Count("write") >= 1
    /\ events[1] = "mkdir"
    /\ result.kind = "ok"

(* ================== download_file: failures mid-transfer =============== *)
ReadFailed == Count("read_failed") >= 1
WriteFailed == Count("write_failed") >= 1

\* C10: when a read or a write fails, download_file returns that error and
\* does nothing more; the file is left as it is: it holds every chunk written
\* before the failure, and the fully written chunks are a prefix of the body.
C10_FailureState ==
    /\ ReadFailed =>
          /\ Finished
          /\ result = Err(IoError("read failed"))
          /\ events[Len(events)] = "read_failed"
          /\ file = Some(SubSeq(resp.body, 1, pos))
          /\ pr => Len(incs) = Count("write")
    /\ WriteFailed =>
          /\ Finished
          /\ result = Err(IoError("write_all failed"))
          /\ events[Len(events)] = "write_failed"
          /\ file # None
          /\ IsPrefix(SubSeq(resp.body, 1, pos - Len(buf)), file[1])
          /\ IsPrefix(file[1], resp.body)
          /\ Len(file[1]) < pos
          /\ pr => Len(incs) = Count("write")

\* C10, the steps: once the call has returned, the file, the log of reads,
\* writes and reports, and the sink are left alone
C10_FailureStep ==
    Finished => UNCHANGED <<file, events, incs, setLengths, pos, result>>

C10_DownloadFailure == [](C10_FailureState) /\ [][C10_FailureStep]_vars

\* a write failed after an earlier chunk had been written and reported
C10_Witness ==
    /\ WriteFailed
    /\ Count("write") >= 1
    /\ file # None /\ Len(file[1]) >= 1
    /\ pc = "classified"

\* a read failed after an earlier chunk had been written
C10_WitnessRead ==
    /\ ReadFailed
    /\ Count("write") >= 1
    /\ file # None /\ Len(file[1]) >= 1
    /\ pc = "classified"

(* ======================== the client singletons ======================== *)
\* C11: whatever the interleaving of the threads that access a singleton,
\* its initializer runs at most once, and exactly once when a thread has got
\* the client; every thread that got the client of a singleton got the same,
\* fully constructed one, and only after the cell was marked complete.
C11_InitializedOnce ==
    /\ \A s \in Singletons : ctorRuns[s] <= 1
    /\ \A t \in Threads :
          tpc[t] = "done" =>
             /\ ctorRuns[target[t]] = 1
             /\ cell[target[t]].state = "complete"
             /\ seen[t] = cell[target[t]].value
             /\ seen[t].timeout = Timeout(target[t])
             /\ seen[t].connect_timeout = Timeout(target[t])
             /\ seen[t].gzip
    /\ \A t, u \in Threads :
          (tpc[t] = "done" /\ tpc[u] = "done" /\ target[t] = target[u])
             => seen[t] = seen[u]

\* every thread accessed HTTP and got the client; the initializer ran once
C11_Witness ==
    /\ \A t \in Threads : tpc[t] = "done" /\ target[t] = "HTTP"
    /\ ctorRuns["HTTP"] = 1

(* ================= json and download_file: the requests ================ *)
\* the request log is what one call of get sends: one request, or two when
\* the first went to an http URL and came back with a failure status, the
\* second to the rewritten URL; each with the header get gives it
RequestsOfOneGet ==
    /\ attempt = Len(requests)
    /\ Len(requests) <= 2
    /\ \A i \in DOMAIN requests :
          requests[i].auth = IF requests[i].url.host = "api.github.com" /\ token # <<>>
                             THEN <<(<<"token ", token[1]>>)>> ELSE <<>>
    /\ Len(requests) = 2 =>
          /\ requests[1].url.scheme = "http"
          /\ requests[1].outcome = "response"
          /\ requests[1].status >= 400
          /\ requests[2].url = rewrite(requests[1].url)
    /\ (Len(requests) = 1 /\ pc # "get") =>
          ~(/\ requests[1].url.scheme = "http"
            /\ requests[1].outcome = "response"
            /\ requests[1].status >= 400)
    /\ pc # "get" => requests # <<>> \/ pc = "idle" \/ Finished

\* the step of json after get returned: it sends nothing, and returns get's
\* error, or the decoded body, or the decode error
C12_JsonStep ==
    (pc = "ret" /\ op = "json") =>
        /\ requests' = requests
        /\ pc' = "done"
        /\ IF getRet.kind = "err" THEN result' = getRet
           ELSE result' \in {Ok(resp.body), Err(DecodeError)}

\* the first request of every operation goes to the URL it was called with
C12_FirstStep ==
    (pc = "get" /\ requests = <<>>) => requests'[1].url = url

\* C12: json and download_file send exactly the requests get sends for the
\* same URL and the same answers (same header, same single retry); when the
\* body does not deserialize, json returns the error and sends no further
\* request, also for an http URL.
C12_SameRequestsAsGet ==
    /\ [](op \in {"get", "json", "download_file"} => RequestsOfOneGet)
    /\ [][C12_JsonStep /\ C12_FirstStep /\ (Finished => requests' = requests)]_vars

\* json on an http URL: the body did not deserialize, one request was sent
C12_Witness ==
    /\ op = "json" /\ Finished
    /\ result = Err(DecodeError)
    /\ Len(requests) = 1
    /\ requests[1].url.scheme = "http"

\* download_file after the retry of an http URL
C12_WitnessDownload ==
    /\ op = "download_file" /\ Finished
    /\ Len(requests) = 2
    /\ result.kind = "ok"

(* ========================= the rewritten URL =========================== *)
\* C13: the URL of the retry is the original URL with only the scheme
\* changed from http to https: host, path and query are the original's, also
\* when the path or the query contains the text http://.
C13_OnlySchemeRewritten ==
    \A i \in DOMAIN requests :
        requests[1].url.scheme = "http" =>
            \/ requests[i].url = requests[1].url
            \/ requests[i].url = [requests[1].url EXCEPT !.scheme = "https"]

(* ==================== Client::get: transport errors ==================== *)
\* C14: when sending fails at transport level, get returns that error after
\* this one request, for http and https URLs alike, and never tries https;
\* the retry is taken only after an http request that came back with a
\* failure status.
C14_TransportErrorNoRetry ==
    /\ (attempt >= 1 /\ GetLog[1].outcome = "transport") =>
          /\ attempt = 1
          /\ pc # "get"
          /\ url = GetLog[1].url
          /\ getRet = Err([type |-> "reqwest", status |-> <<>>,
                           msg |-> <<"error sending request for url (">>
                                   \o to_string(GetLog[1].url)])
          /\ (op = "get" /\ Finished) => result = getRet /\ Len(requests) = 1
    /\ attempt >= 2 =>
          /\ GetLog[1].outcome = "response"
          /\ GetLog[1].status >= 400
          /\ GetLog[1].url.scheme = "http"

\* get on an http URL returned the transport error of its only request
C14_Witness ==
    /\ op = "get" /\ pc = "done"
    /\ Len(requests) = 1
    /\ requests[1].url.scheme = "http"
    /\ requests[1].outcome = "transport"
    /\ result.kind = "err"

(* =================== download_file: order of the steps ================= *)
\* the event before event i
Before(i) == IF i = 1 THEN "none" ELSE events[i - 1]

\* the order of the events of a download
C15_Order ==
    \A i \in DOMAIN events :
        /\ events[i] = "set_length" => i = 1
        /\ events[i] \in {"write", "write_failed"} => Before(i) = "read"
        /\ events[i] = "inc" => Before(i) = "write"
        /\ events[i] \in {"read", "eof", "read_failed"} =>
              Before(i) = IF \A j \in 1..(i - 1) : events[j] # "read"
                          THEN "create"
                          ELSE IF pr THEN "inc" ELSE "write"
        /\ events[i] = "eof" => i = Len(events) /\ Finished /\ result = Ok(<<>>)

\* what the sink was told against what the file holds
C15_Reported ==
    (pr /\ Count("create") >= 1) =>
        /\ resp.clen # <<>> => events[1] = "set_length" /\ setLengths = resp.clen
        /\ Len(incs) = Count("inc")
        /\ SumSeq(incs) <= Len(file[1]) * BlockBytes
        /\ pc = "read" => SumSeq(incs) = Len(file[1]) * BlockBytes
        /\ pc = "inc" => SumSeq(incs) + Len(buf) * BlockBytes = Len(file[1]) * BlockBytes

\* a chunk is written in full, then reported with its own size
C15_Step ==
    /\ (pc = "write" /\ pc' = "inc") => file' = <<file[1] \o buf>>
    /\ (pc = "inc" /\ pr) => /\ incs' = Append(incs, Len(buf) * BlockBytes)
                             /\ file' = file
                             /\ pc' = "read"

\* C15: in a download with a progress sink the total length is declared
\* before anything is read or written; each chunk is written in full before
\* the next read; each report follows the write of its chunk, carries that
\* chunk's byte count and precedes the next read; so the bytes reported never
\* exceed the bytes written; and the loop ends at the first zero-length read.
C15_DownloadOrder == [](C15_Order /\ C15_Reported) /\ [][C15_Step]_vars

\* three chunks were read, written and reported, then the body ended
C15_Witness ==
    /\ pr /\ Finished
    /\ Count("eof") = 1
    /\ Count("inc") = 3
    /\ Count("set_length") = 1

(* ===================== what get hands to its callers =================== *)
\* C16: whenever get returns a response, its status is not a failure status,
\* whatever the scheme and the outcomes of the first request and the retry;
\* no response with a failure status reaches the caller, the text or JSON
\* decoder or the downloader.
C16_OnlySuccessReturned ==
    (\/ getRet.kind = "ok"
     \/ result.kind = "ok"
     \/ pc \in {"mkdir", "create", "read", "write", "inc"}) =>
        /\ resp.status >= 200 /\ resp.status < 400
        /\ requests[Len(requests)].outcome = "response"
        /\ requests[Len(requests)].status = resp.status

\* get returned the response of the retry after the http request had failed
C16_Witness ==
    /\ pc = "ret" /\ attempt = 2
    /\ getRet.kind = "ok"
    /\ requests[1].status = 404
    /\ resp.status = 200

\* C17: whenever get_text returns a text, the text does not begin with
\* <!DOCTYPE html>, whatever the scheme and the answers to its requests.
C17_NoHtmlReturned ==
    (op = "get_text" /\ result.kind = "ok") =>
        /\ result.value = resp.body
        /\ result.value = <<>> \/ result.value[1] # "<!DOCTYPE html>"

\* get_text returned a text from its re-run, after two requests that did not
\* yield one
C17_Witness ==
    /\ op = "get_text" /\ pc = "done"
    /\ result.kind = "ok"
    /\ Len(result.value) >= 1
    /\ Len(requests) = 3

(* ================ download_file: a failed request phase ================ *)
\* download_file is in its request phase, or has returned the error of it
RequestPhase ==
    /\ op = "download_file"
    /\ \/ pc \in {"get", "ret"}
       \/ Finished /\ result.kind = "err" /\ result.err.type \in {"url", "reqwest"}

\* nothing was declared, reported, created, read or written
C18_Untouched ==
    RequestPhase => events = <<>> /\ setLengths = <<>> /\ incs = <<>> /\ pos = 0

\* the steps of the request phase, and the return of its error, leave the
\* directory, the file and the sink as they are
C18_Step ==
    (\/ pc = "idle" /\ op' = "download_file"
     \/ pc = "get" /\ op = "download_file"
     \/ pc = "ret" /\ op = "download_file" /\ getRet.kind = "err"
     \/ Finished /\ op = "download_file") =>
        /\ UNCHANGED <<dir, file, setLengths, incs, events>>
        /\ (pc = "ret" => pc' = "done" /\ result' = getRet)

\* C18: when the request phase of download_file fails (malformed URL,
\* transport error, failure status after the retry) the call returns the
\* error and has touched neither the filesystem nor the sink: no directory
\* created, the file neither created nor truncated, no total length declared
\* and no increment reported.
C18_RequestFailureNoEffect == [](C18_Untouched) /\ [][C18_Step]_vars

\* download_file returned the status error of the retry; the old file is
\* still there
C18_Witness ==
    /\ op = "download_file" /\ pc = "done"
    /\ Len(requests) = 2
    /\ result.kind = "err" /\ result.err.status = <<500>>
    /\ file = <<(<<"old">>)>>

\* download_file returned the URL error of a malformed URL
C18_WitnessUrl ==
    /\ op = "download_file" /\ pc = "done"
    /\ result.kind = "err" /\ result.err.type = "url"
    /\ requests = <<>>

(* ============================= termination ============================= *)
\* the number of requests an operation may send
MaxRequests(o) == IF o = "get_text" THEN 3 ELSE 2

\* the bound on the requests, and no http URL after a rewrite
C19_Bounded ==
    /\ op \in {"get", "json", "get_text"} => Len(requests) <= MaxRequests(op)
    /\ op \in {"get", "json"} => rewrites <= 1
    /\ op = "get_text" => rewrites <= 2
    /\ (pc = "get" /\ (attempt >= 1 \/ rewrites >= 1)) => url.scheme = "https"
    /\ \A i \in DOMAIN requests : i >= 2 => requests[i].url.scheme = "https"

\* C19: when every request returns, every call of get, get_text and json
\* terminates; get and json send at most 2 requests and get_text at most 3;
\* the recursion never re-enters with an http URL.
C19_Terminates == [](C19_Bounded) /\ <>(Finished)

\* get_text finished after three requests: the http one failed, the retry
\* of get returned HTML, and the re-run of get_text sent the third
C19_Witness ==
    /\ op = "get_text" /\ Finished
    /\ Len(requests) = 3
    /\ requests[1].status = 500
    /\ requests[2].status = 200

====
